---- MODULE Spec2Model ----
(***************************************************************************)
(* Model of the order-book derivation engine (lib/src/orderbook_filter.rs) *)
(* and of the cache-backed account fetcher                                 *)
(* (connector/src/chain_data_fetcher.rs) of mango-feeds.                   *)
(*                                                                         *)
(* Three specifications share this module:                                 *)
(*   Spec        the engine loop of orderbook_filter::init                 *)
(*   SpecDiff    the level diff of publish_changes as a pure function      *)
(*   SpecFetcher ChainDataFetcher over the shared cache, with the external *)
(*               updater and the RPC node as environment                   *)
(***************************************************************************)
EXTENDS Integers, Sequences, FiniteSets, TLC

\* ------------------------------------------------------------------ bounds
\* slots are 1..MaxSlot (0 is the initial best_chain_slot of an empty cache)
MaxSlot == 2
\* write versions are 1..MaxWriteVersion
MaxWriteVersion == 2
\* inbound events the engine receives in one run
MaxEvents == 4
\* the fork scenario: slots 1..MaxForkSlot and MaxForkEvents events of one side
MaxForkSlot == 3
MaxForkEvents == 5
\* the level lists fed to the diff: at most MaxLevels levels, price ticks
\* 1..MaxPrice, quantities 0..MaxQty
MaxLevels == 2
MaxPrice == 3
MaxQty == 2
\* the polling timeout is 0..MaxTimeout, in units of the 500 ms sleep
MaxTimeout == 1
\* calls the external updater makes on the shared cache in one run
MaxUpdates == 2

\* Option<T>: None is the empty sequence, Some(x) the one-element sequence
None == <<>>
Some(x) == <<x>>

\* ------------------------------------------------------------- small helpers
RECURSIVE Gcd(_, _)
Gcd(a, b) == IF b = 0 THEN a ELSE Gcd(b, a % b)

RECURSIVE Pow10(_)
Pow10(d) == IF d = 0 THEN 1 ELSE 10 * Pow10(d - 1)

Range(s) == {s[i] : i \in DOMAIN s}

\* index of the first level of s at this price, 0 when there is none
\* (Iterator::find on the price)
FindPrice(s, price) ==
    IF \E i \in DOMAIN s : s[i].price = price
    THEN CHOOSE i \in DOMAIN s :
            s[i].price = price /\ \A j \in 1..(i - 1) : s[j].price # price
    ELSE 0

\* native as f64 / 10^decimals, kept exact as a reduced fraction: two results
\* are equal exactly when the quotients are equal
native_to_ui(native, decimals) ==
    LET den == Pow10(decimals)
        g == Gcd(native, den)
    IN [n |-> native \div g, d |-> den \div g]

ZeroSize == [n |-> 0, d |-> 1]

\* ------------------------------------------------------------ the level diff
\* push diff for levels that are no longer present
Removals(current_bookside, previous_bookside) ==
    LET Gone(previous_order) == FindPrice(current_bookside, previous_order.price) = 0
        gone == SelectSeq(previous_bookside, Gone)
    IN [i \in DOMAIN gone |-> [price |-> gone[i].price, size |-> ZeroSize]]

\* mutant of Changes: a level whose size changed is not reported
ChangesSizeAgnostic(current_bookside, previous_bookside) ==
    LET New(current_order) == FindPrice(previous_bookside, current_order.price) = 0
    IN SelectSeq(current_bookside, New)

\* push diff where there's a new level or size has changed
Changes(current_bookside, previous_bookside) ==
    LET Changed(current_order) ==
            LET peer == FindPrice(previous_bookside, current_order.price)
            IN IF peer = 0 THEN TRUE
               ELSE previous_bookside[peer].size # current_order.size
    IN SelectSeq(current_bookside, Changed)

\* mutant of DiffLevels: the new and changed levels are pushed before the removals
DiffLevelsChangesFirst(current_bookside, previous_bookside) ==
    Changes(current_bookside, previous_bookside)
        \o Removals(current_bookside, previous_bookside)

\* the `update` vector of publish_changes / publish_changes_serum
DiffLevels(current_bookside, previous_bookside) ==
    Removals(current_bookside, previous_bookside)
        \o Changes(current_bookside, previous_bookside)

\* ------------------------------------------------------------- ChainData
\* The versioned account/slot cache (crate::chain_data).  A cache is a record
\*   slots            slot -> [parent, status, chain]   (parent NoParent = unknown)
\*   accounts         address -> versions [slot, write_version, account],
\*                    ordered by slot, one version per slot
\*   best_chain_slot  the head of the best chain (0 in an empty cache)
NoParent == -1

StatusRank(status) ==
    CASE status = "Processed" -> 0
      [] status = "Confirmed" -> 1
      [] status = "Rooted" -> 2

ChainDataNew ==
    [slots |-> <<>>, accounts |-> <<>>, best_chain_slot |-> 0]

\* the slots of the chain that ends in slot s, following the parent links
RECURSIVE ChainOf(_, _)
ChainOf(slots, s) ==
    IF s \notin DOMAIN slots THEN {}
    ELSE {s} \cup (IF slots[s].parent = NoParent \/ slots[s].parent >= s
                   THEN {}
                   ELSE ChainOf(slots, slots[s].parent))

best_chain_slot(cd) == cd.best_chain_slot

\* merges a SlotRecord: the parent is kept once known, the status only advances,
\* and a record with a known parent above the best slot becomes the best chain's head
update_slot(cd, rec) ==
    LET merged ==
            IF rec.slot \in DOMAIN cd.slots
            THEN LET old == cd.slots[rec.slot]
                 IN [parent |-> IF old.parent # NoParent THEN old.parent ELSE rec.parent,
                     status |-> IF StatusRank(rec.status) > StatusRank(old.status)
                                THEN rec.status ELSE old.status,
                     chain |-> old.chain]
            ELSE [parent |-> rec.parent, status |-> rec.status, chain |-> rec.chain]
        new_best == rec.parent # NoParent /\ rec.slot > cd.best_chain_slot
    IN [cd EXCEPT
          !.slots = [s \in DOMAIN cd.slots \cup {rec.slot} |->
                        IF s = rec.slot THEN merged ELSE cd.slots[s]],
          !.best_chain_slot = IF new_best THEN rec.slot ELSE @]

\* whether a stored version is on the best chain (or on a rooted slot)
is_account_write_live(cd, write) ==
    /\ write.slot \in DOMAIN cd.slots
    /\ \/ cd.slots[write.slot].status = "Rooted"
       \/ write.slot \in ChainOf(cd.slots, cd.best_chain_slot)

\* mutant of InsertPos: a version is always appended
InsertPosEnd(versions, slot) == Len(versions)

\* position after which a version of slot `slot` is inserted: the number of
\* stored versions with a slot below it
InsertPos(versions, slot) ==
    Cardinality({i \in DOMAIN versions : versions[i].slot < slot})

\* mutant of update_account: the version of the same slot is always overwritten
update_account_overwrite(cd, pubkey, account) ==
    LET v == IF pubkey \in DOMAIN cd.accounts THEN cd.accounts[pubkey] ELSE <<>>
        pos == InsertPos(v, account.slot)
        nv == IF pos < Len(v) /\ v[pos + 1].slot = account.slot
              THEN [v EXCEPT ![pos + 1] = account]
              ELSE SubSeq(v, 1, pos) \o <<account>> \o SubSeq(v, pos + 1, Len(v))
    IN [cd EXCEPT
          !.accounts = [a \in DOMAIN cd.accounts \cup {pubkey} |->
                           IF a = pubkey THEN nv ELSE cd.accounts[a]]]

\* stores a version; one version per slot, the higher write_version wins
update_account(cd, pubkey, account) ==
    LET v == IF pubkey \in DOMAIN cd.accounts THEN cd.accounts[pubkey] ELSE <<>>
        pos == InsertPos(v, account.slot)
        nv == IF pos < Len(v) /\ v[pos + 1].slot = account.slot
              THEN IF v[pos + 1].write_version <= account.write_version
                   THEN [v EXCEPT ![pos + 1] = account]
                   ELSE v
              ELSE SubSeq(v, 1, pos) \o <<account>> \o SubSeq(v, pos + 1, Len(v))
    IN [cd EXCEPT
          !.accounts = [a \in DOMAIN cd.accounts \cup {pubkey} |->
                           IF a = pubkey THEN nv ELSE cd.accounts[a]]]

\* index of the most recent live version in `versions`, 0 when there is none
LatestLive(cd, versions) ==
    IF \E i \in DOMAIN versions : is_account_write_live(cd, versions[i])
    THEN CHOOSE i \in DOMAIN versions :
            /\ is_account_write_live(cd, versions[i])
            /\ \A j \in (i + 1)..Len(versions) : ~is_account_write_live(cd, versions[j])
    ELSE 0

\* account(address): Some(the resolved current version), or None (NotFound)
account(cd, pubkey) ==
    IF pubkey \notin DOMAIN cd.accounts THEN None
    ELSE LET i == LatestLive(cd, cd.accounts[pubkey])
         IN IF i = 0 THEN None ELSE Some(cd.accounts[pubkey][i])

\* iter_accounts(): the (address, resolved current version) pairs
iter_accounts(cd) ==
    {<<pk, account(cd, pk)[1]>> :
        pk \in {a \in DOMAIN cd.accounts : account(cd, a) # None}}

accounts_count(cd) == Cardinality(DOMAIN cd.accounts)

\* ------------------------------------------------------------ engine: state
VARIABLES
    market_configs,         \* the native markets, in configuration order
    serum_market_configs,   \* the legacy (serum) markets, in configuration order
    chain_cache,            \* the engine's private ChainData
    bookside_cache,         \* pubkey -> levels, native markets
    serum_bookside_cache,   \* pubkey -> levels, serum markets
    last_write_versions,    \* pubkey -> <<slot, write_version>>, the dedup keys
    metric_events_new,      \* the "orderbook_updates" counter
    receiver_open,          \* whether fill_update_receiver is still alive
    engine,                 \* "running", or "panicked" once the spawned task has died
    fill_updates,           \* messages enqueued while handling the last event
    pass,                   \* what each side visited for the last event did (history)
    replay,                 \* the last event redelivered a write the cache held (history)
    emitted_updates,        \* Updates enqueued so far (history)
    replicas,               \* market -> the books of the consumers that started from
                            \* each Checkpoint and applied the later Updates (history)
    last_published,         \* side -> (slot, write_version) of its last message (history)
    events                  \* inbound events received so far

VARIABLES
    diff_in,                \* the arguments of a publish_changes call under test
    diff_out                \* None, or Some(what the call enqueued and did)

diffVars == <<diff_in, diff_out>>

VARIABLES
    chain_data,             \* the shared ChainData behind the RwLock
    poll,                   \* the refresh_accounts_via_rpc_until_slot call
    elapsed,                \* start.elapsed(), in units of the 500 ms sleep
    seen,                   \* index in addresses -> highest slot a refresh returned (history)
    attempted,              \* indexes in addresses a refresh was issued for (history)
    issued_late,            \* a refresh was issued with the deadline already passed (history)
    updates,                \* calls the external updater has made
    scan,                   \* None, or Some(a fetch_program_accounts_sync call and its result)
    calls,                  \* caller -> its refresh_account_via_rpc / lookup-table call
    wrapped                 \* None, or Some(a call through the sync-to-async adapter)

callVars == <<calls, wrapped>>

fetcherVars ==
    <<chain_data, poll, elapsed, seen, attempted, issued_late, updates, scan, callVars>>

engineVars ==
    <<market_configs, serum_market_configs, chain_cache, bookside_cache,
      serum_bookside_cache, last_write_versions, metric_events_new, receiver_open,
      engine, fill_updates, pass, replay, emitted_updates, replicas,
                   last_published, events>>

\* ---------------------------------------------------------- engine: inputs
NativeMarket ==
    [pk |-> "perp", name |-> "PERP", bids |-> "perp_bids", asks |-> "perp_asks",
     base_decimals |-> 0, quote_decimals |-> 1]

SerumMarket ==
    [pk |-> "spot", name |-> "SPOT", bids |-> "spot_bids", asks |-> "spot_asks",
     base_decimals |-> 1, quote_decimals |-> 0]

\* an address no configured market uses
OtherPubkey == "other"

Order(p, q) == [price |-> p, quantity |-> q]

\* Account bytes as the decoders see them: ok = the bytes decode; tree = the
\* order_tree_type stored in a native BookSide; orders = what iterating the
\* order tree yields, in iteration order (price-sorted).
Book(tree, orders) == [ok |-> TRUE, tree |-> tree, orders |-> orders]
Undecodable == [ok |-> FALSE, tree |-> "Bids", orders |-> <<>>]

\* The chain the stream reports: one write (address, slot, write_version) has one
\* content.  The contents cover a size change by a second order at one price, a
\* new level, a removed level, an unchanged book, bytes that do not decode, a
\* native asks account holding a bids tree, and a level of quantity 0.
BidsContent(slot, write_version) ==
    CASE slot = 1 /\ write_version = 1 -> Book("Bids", <<Order(1, 1)>>)
      [] slot = 1 /\ write_version = 2 -> Book("Bids", <<Order(1, 1), Order(1, 1)>>)
      [] slot = 2 /\ write_version = 1 -> Book("Bids", <<Order(1, 1), Order(2, 1)>>)
      [] slot = 2 /\ write_version = 2 -> Book("Bids", <<Order(2, 1)>>)
      [] OTHER -> Book("Bids", <<Order(((slot + write_version) % 3) + 1, 1)>>)

AsksContent(slot, write_version, native) ==
    CASE slot = 1 /\ write_version = 1 -> Book("Asks", <<Order(3, 1)>>)
      [] slot = 1 /\ write_version = 2 ->
            IF native THEN Book("Bids", <<Order(3, 1)>>)
            ELSE Book("Asks", <<Order(3, 1)>>)
      [] slot = 2 /\ write_version = 1 -> Undecodable
      [] slot = 2 /\ write_version = 2 ->
            IF native THEN Book("Bids", <<Order(3, 2)>>)
            ELSE Book("Asks", <<Order(3, 0), Order(4, 1)>>)
      [] OTHER -> Book("Asks", <<Order(((slot + write_version) % 3) + 3, 1)>>)

\* the account data the stream delivers for a write
DataFor(pubkey, slot, write_version) ==
    CASE pubkey \in {NativeMarket.bids, SerumMarket.bids} ->
            {BidsContent(slot, write_version)}
      [] pubkey = NativeMarket.asks -> {AsksContent(slot, write_version, TRUE)}
      [] pubkey = SerumMarket.asks -> {AsksContent(slot, write_version, FALSE)}
      [] OTHER -> {Undecodable}

Slots == 1..MaxSlot
WriteVersions == 1..MaxWriteVersion
Statuses == {"Processed", "Confirmed", "Rooted"}

\* flat_map(|m| [m.1.bids, m.1.asks]) over both configurations
relevant_pubkeys ==
    UNION {{market_configs[i].bids, market_configs[i].asks} : i \in DOMAIN market_configs}
    \cup UNION {{serum_market_configs[i].bids, serum_market_configs[i].asks} :
                    i \in DOMAIN serum_market_configs}

\* the (market, side) pairs in the order the two nested loops visit them
RECURSIVE SidesOf(_, _)
SidesOf(configs, kind) ==
    IF configs = <<>> THEN <<>>
    ELSE << [kind |-> kind, mkt |-> Head(configs), side |-> 0],
            [kind |-> kind, mkt |-> Head(configs), side |-> 1] >>
         \o SidesOf(Tail(configs), kind)

ScanList == SidesOf(market_configs, "native") \o SidesOf(serum_market_configs, "serum")

\* ---------------------------------------------------------- engine: decode
\* mutant of GroupByPrice: every order becomes a level of its own
GroupByPriceNone(orders) == orders

\* group_by(price) over consecutive entries, summing the quantities
RECURSIVE GroupByPrice(_)
GroupByPrice(orders) ==
    IF orders = <<>> THEN <<>>
    ELSE LET h == Head(orders)
             rest == GroupByPrice(Tail(orders))
         IN IF rest # <<>> /\ rest[1].price = h.price
            THEN <<Order(h.price, h.quantity + rest[1].quantity)>> \o Tail(rest)
            ELSE <<h>> \o rest

\* the OrderbookLevel vector collected from the grouped orders
DecodeLevels(orders, mkt) ==
    LET g == GroupByPrice(orders)
    IN [i \in DOMAIN g |->
          [price |-> native_to_ui(g[i].price, mkt.quote_decimals),
           size |-> native_to_ui(g[i].quantity, mkt.base_decimals)]]

Get(map, key) == IF key \in DOMAIN map THEN Some(map[key]) ELSE None

Insert(map, key, value) ==
    [k \in DOMAIN map \cup {key} |-> IF k = key THEN value ELSE map[k]]

\* --------------------------------------------------------- engine: publish
Checkpoint(mkt, bids, asks, slot, write_version) ==
    [type |-> "Checkpoint", market |-> mkt.pk, bids |-> bids, asks |-> asks,
     slot |-> slot, write_version |-> write_version]

Update(mkt, side, update, slot, write_version) ==
    [type |-> "Update", market |-> mkt.pk, side |-> side, update |-> update,
     slot |-> slot, write_version |-> write_version]

\* try_send(..).unwrap() on the unbounded channel: Ok while a receiver lives,
\* Err(Closed) and so a panic once it is dropped
TrySendOk(open) == open

\* publish_changes: the messages enqueued, whether an unwrap panicked, and the
\* increments of the update counter
publish_changes(slot, write_version, mkt, side, current_bookside, previous_bookside, maybe_other_bookside, open) ==
    LET update == DiffLevels(current_bookside, previous_bookside)
        bids == IF side = "Bid" THEN current_bookside ELSE maybe_other_bookside[1]
        asks == IF side = "Bid" THEN maybe_other_bookside[1] ELSE current_bookside
        wantCkpt == maybe_other_bookside # None
        ckpt == IF wantCkpt /\ TrySendOk(open)
                THEN <<Checkpoint(mkt, bids, asks, slot, write_version)>>
                ELSE <<>>
    IN IF wantCkpt /\ ~TrySendOk(open)
       THEN [msgs |-> <<>>, panic |-> TRUE, inc |-> 0]
       ELSE IF Len(update) = 0
       THEN [msgs |-> ckpt, panic |-> FALSE, inc |-> 0]
       ELSE IF ~TrySendOk(open)
       THEN [msgs |-> ckpt, panic |-> TRUE, inc |-> 0]
       ELSE [msgs |-> ckpt \o <<Update(mkt, side, update, slot, write_version)>>,
             panic |-> FALSE, inc |-> 1]

\* publish_changes_serum: the same diff and the same sends
publish_changes_serum(slot, write_version, mkt, side, current_bookside, previous_bookside, maybe_other_bookside, open) ==
    LET update == DiffLevels(current_bookside, previous_bookside)
        bids == IF side = "Bid" THEN current_bookside ELSE maybe_other_bookside[1]
        asks == IF side = "Bid" THEN maybe_other_bookside[1] ELSE current_bookside
        wantCkpt == maybe_other_bookside # None
        ckpt == IF wantCkpt /\ TrySendOk(open)
                THEN <<Checkpoint(mkt, bids, asks, slot, write_version)>>
                ELSE <<>>
    IN IF wantCkpt /\ ~TrySendOk(open)
       THEN [msgs |-> <<>>, panic |-> TRUE, inc |-> 0]
       ELSE IF Len(update) > 0
       THEN IF ~TrySendOk(open)
            THEN [msgs |-> ckpt, panic |-> TRUE, inc |-> 0]
            ELSE [msgs |-> ckpt \o <<Update(mkt, side, update, slot, write_version)>>,
                  panic |-> FALSE, inc |-> 1]
       ELSE [msgs |-> ckpt, panic |-> FALSE, inc |-> 0]

\* ------------------------------------------------------ engine: one side
\* let side_pk = if side == 0 { mkt.1.bids } else { mkt.1.asks };
SidePk(e) == IF e.side = 0 THEN e.mkt.bids ELSE e.mkt.asks

\* mutant of OtherSidePk: the opposite side is looked up under the side's own key
OtherSidePkSame(e) == IF e.side = 0 THEN e.mkt.bids ELSE e.mkt.asks

\* let other_side_pk = if side == 0 { mkt.1.asks } else { mkt.1.bids };
OtherSidePk(e) == IF e.side = 0 THEN e.mkt.asks ELSE e.mkt.bids

\* the address of the market's opposite book, for the summaries
Opposite(e) == IF e.side = 0 THEN e.mkt.asks ELSE e.mkt.bids

\* unwrap_or(&(0, 0))
LastWriteVersion(keys, pk) == IF pk \in DOMAIN keys THEN keys[pk] ELSE <<0, 0>>

\* mutant of DedupSkip: the dedup key is never honoured
DedupSkipNever(write_version, last_write_version) == FALSE

\* if write_version == *last_write_version { continue; }
DedupSkip(write_version, last_write_version) == write_version = last_write_version

\* BookSide::try_deserialize(..).unwrap() / the slices and Slab::new of the
\* legacy path: whether the account bytes make the decode panic
DecodePanics(data) == ~data.ok

\* the side handed to publish_changes: the native path reads it from the decoded
\* tree (order_tree_type), the legacy path from the loop index
PublishSide(e, data) ==
    IF e.kind = "native"
    THEN (IF data.tree = "Bids" THEN "Bid" ELSE "Ask")
    ELSE (IF e.side = 0 THEN "Bid" ELSE "Ask")

\* mutant of HasPrevious: a side without a cached snapshot is published against
\* an empty previous book
HasPreviousAlways(old) == TRUE

\* match bookside_cache.get(&side_pk_string) { Some(old_bookside) => .., _ => .. }
HasPrevious(old) == old # None

\* the old_bookside handed to publish_changes
OldBookside(old) == IF old = None THEN <<>> ELSE old[1]

NoLast ==
    [kind |-> "none", pk |-> "", was_cached |-> FALSE, other_cached |-> FALSE,
     ckpt |-> FALSE, upd |-> FALSE, diff_empty |-> TRUE, key_changed |-> FALSE,
     cache_changed |-> FALSE, market |-> "", is_bids |-> FALSE, version |-> <<>>,
     bookside |-> <<>>, other |-> None, diff |-> <<>>, msgs |-> <<>>]

\* The body of the loop over (market, side) for entry e, with `cache` the
\* bookside cache of e's market family.  Yields the new dedup keys and cache, the
\* messages enqueued, the counter increment, whether the task panicked, and a
\* summary of what happened.
SideStep(e, cache, keys, cd, open) ==
    LET side_pk == SidePk(e)
        other_side_pk == OtherSidePk(e)
        last_write_version == LastWriteVersion(keys, side_pk)
        found == account(cd, side_pk)
        base == [NoLast EXCEPT !.pk = side_pk,
                               !.was_cached = (side_pk \in DOMAIN cache),
                               !.other_cached = (Opposite(e) \in DOMAIN cache),
                               !.market = e.mkt.pk,
                               !.is_bids = (e.side = 0),
                               !.other = Get(cache, Opposite(e))]
        same == [keys |-> keys, cache |-> cache, msgs |-> <<>>, inc |-> 0,
                 panic |-> FALSE, last |-> base]
    IN IF found = None
       THEN [same EXCEPT !.last.kind = "notfound"]
       ELSE
        LET account_info == found[1]
            write_version == <<account_info.slot, account_info.write_version>>
            data == account_info.account
            keys2 == Insert(keys, side_pk, write_version)
            changed == keys2 # keys
        IN IF DedupSkip(write_version, last_write_version)
           THEN [same EXCEPT !.last.kind = "dedup"]
           ELSE IF DecodePanics(data)
           THEN [same EXCEPT !.keys = keys2, !.panic = TRUE,
                             !.last.kind = "decodefail",
                             !.last.key_changed = changed]
           ELSE
            LET side == PublishSide(e, data)
                bookside == DecodeLevels(data.orders, e.mkt)
                other_bookside == Get(cache, other_side_pk)
                old == Get(cache, side_pk)
                cache2 == Insert(cache, side_pk, bookside)
            IN IF ~HasPrevious(old)
               THEN [same EXCEPT !.keys = keys2, !.cache = cache2,
                                 !.last.kind = "first",
                                 !.last.version = write_version,
                                 !.last.bookside = bookside,
                                 !.last.key_changed = changed,
                                 !.last.cache_changed = TRUE]
               ELSE
                LET pub == IF e.kind = "native"
                           THEN publish_changes(account_info.slot,
                                    account_info.write_version, e.mkt, side, bookside,
                                    OldBookside(old), other_bookside, open)
                           ELSE publish_changes_serum(account_info.slot,
                                    account_info.write_version, e.mkt, side, bookside,
                                    OldBookside(old), other_bookside, open)
                    summary == [base EXCEPT
                        !.kind = IF pub.panic THEN "sendfail" ELSE "published",
                        !.ckpt = \E i \in DOMAIN pub.msgs : pub.msgs[i].type = "Checkpoint",
                        !.upd = \E i \in DOMAIN pub.msgs : pub.msgs[i].type = "Update",
                        !.diff_empty = (DiffLevels(bookside, OldBookside(old)) = <<>>),
                        !.version = write_version,
                        !.bookside = bookside,
                        !.diff = DiffLevels(bookside, OldBookside(old)),
                        !.msgs = pub.msgs,
                        !.key_changed = changed,
                        !.cache_changed = ~pub.panic /\ cache2 # cache]
                IN [keys |-> keys2,
                    cache |-> IF pub.panic THEN cache ELSE cache2,
                    msgs |-> pub.msgs, inc |-> pub.inc, panic |-> pub.panic,
                    last |-> summary]

\* ------------------------------------------------- the consumer's replicas
\* what a consumer holds after applying the update u to the level set S: a
\* level of size 0 deletes the price, any other level replaces or inserts it
ApplyLevel(S, u) ==
    IF u.size = ZeroSize
    THEN {l \in S : l.price # u.price}
    ELSE {l \in S : l.price # u.price} \cup {u}

RECURSIVE ApplyUpdate(_, _)
ApplyUpdate(U, S) ==
    IF U = <<>> THEN S ELSE ApplyUpdate(Tail(U), ApplyLevel(S, Head(U)))

\* the books of the consumers of one market after message m: a Checkpoint of
\* the market starts a replica from its bids and asks, an Update of the market
\* is applied to the named side of every replica started before it
ConsumerMessage(books, m) ==
    IF m.type = "Checkpoint"
    THEN books \cup {[bids |-> Range(m.bids), asks |-> Range(m.asks)]}
    ELSE {IF m.side = "Bid"
          THEN [b EXCEPT !.bids = ApplyUpdate(m.update, @)]
          ELSE [b EXCEPT !.asks = ApplyUpdate(m.update, @)] : b \in books}

RECURSIVE Consume(_, _)
Consume(msgs, reps) ==
    IF msgs = <<>> THEN reps
    ELSE Consume(Tail(msgs),
                 [reps EXCEPT ![Head(msgs).market] = ConsumerMessage(@, Head(msgs))])

\* the version tag each side last published a message with, after the sides of
\* `summaries` were visited
RECURSIVE Published(_, _)
Published(summaries, tags) ==
    IF summaries = <<>> THEN tags
    ELSE Published(Tail(summaries),
                   IF Head(summaries).msgs = <<>> THEN tags
                   ELSE Insert(tags, Head(summaries).pk, Head(summaries).version))

\* ------------------------------------------------------- engine: actions
\* The two loops over market_configs and serum_market_configs that follow the
\* select!: SideStep for ScanList[i], ScanList[i+1], .. until the list ends or
\* the task panics.  st carries the dedup keys, the two bookside caches, the
\* messages enqueued, the counter and the summaries of the sides visited.
RECURSIVE Scan(_, _, _, _)
Scan(i, st, cd, open) ==
    IF i > Len(ScanList) \/ st.panic THEN st
    ELSE LET e == ScanList[i]
             native == e.kind = "native"
             r == SideStep(e, IF native THEN st.bookside_cache
                              ELSE st.serum_bookside_cache, st.keys, cd, open)
         IN Scan(i + 1,
                 [keys |-> r.keys,
                  bookside_cache |-> IF native THEN r.cache ELSE st.bookside_cache,
                  serum_bookside_cache |->
                      IF native THEN st.serum_bookside_cache ELSE r.cache,
                  msgs |-> st.msgs \o r.msgs,
                  metric |-> st.metric + r.inc,
                  panic |-> r.panic,
                  pass |-> Append(st.pass, r.last)],
                 cd, open)

\* the scan run over the engine's state with the cache as updated by the event
ScanAfter(cd) ==
    Scan(1, [keys |-> last_write_versions, bookside_cache |-> bookside_cache,
             serum_bookside_cache |-> serum_bookside_cache, msgs |-> <<>>,
             metric |-> metric_events_new, panic |-> FALSE, pass |-> <<>>],
         cd, receiver_open)

Rescan(cd) ==
    \E st \in {ScanAfter(cd)} :
       /\ last_write_versions' = st.keys
       /\ bookside_cache' = st.bookside_cache
       /\ serum_bookside_cache' = st.serum_bookside_cache
       /\ fill_updates' = st.msgs
       /\ metric_events_new' = st.metric
       /\ engine' = IF st.panic THEN "panicked" ELSE "running"
       /\ pass' = st.pass
       /\ emitted_updates' =
             emitted_updates + Cardinality({i \in DOMAIN st.msgs : st.msgs[i].type = "Update"})
       /\ replicas' = Consume(st.msgs, replicas)
       /\ last_published' = Published(st.pass, last_published)

\* the configurations init() is called with
Configs ==
    { [native |-> <<NativeMarket>>, serum |-> <<SerumMarket>>] }

EngineInit ==
    /\ \E c \in Configs :
          /\ market_configs = c.native
          /\ serum_market_configs = c.serum
    /\ chain_cache = ChainDataNew
    /\ bookside_cache = <<>>
    /\ serum_bookside_cache = <<>>
    /\ last_write_versions = <<>>
    /\ metric_events_new = 0
    /\ receiver_open = TRUE
    /\ engine = "running"
    /\ fill_updates = <<>>
    /\ pass = <<>>
    /\ replay = FALSE
    /\ emitted_updates = 0
    /\ replicas = [m \in {market_configs[i].pk : i \in DOMAIN market_configs}
                         \cup {serum_market_configs[i].pk :
                                  i \in DOMAIN serum_market_configs} |-> {}]
    /\ last_published = <<>>
    /\ events = 0

\* whether the cache already holds exactly this version of the address
Held(cd, pubkey, write) ==
    /\ pubkey \in DOMAIN cd.accounts
    /\ \E i \in DOMAIN cd.accounts[pubkey] : cd.accounts[pubkey][i] = write

\* Ok(account_write) = account_write_queue_receiver_c.recv(), then the scan,
\* for a write drawn from the given addresses, slots and write versions
AccountWriteEvent(pubkeys, slots, write_versions, max_events) ==
    /\ engine = "running" /\ events < max_events
    /\ \E pubkey \in pubkeys, slot \in slots, write_version \in write_versions :
        \E data \in DataFor(pubkey, slot, write_version) :
          LET write == [slot |-> slot, write_version |-> write_version, account |-> data]
          IN /\ events' = events + 1
             /\ IF pubkey \notin relevant_pubkeys
                THEN \* continue: back to select! without scanning
                     /\ replay' = FALSE
                     /\ fill_updates' = <<>>
                     /\ pass' = <<>>
                     /\ UNCHANGED <<chain_cache, last_write_versions, bookside_cache,
                                    serum_bookside_cache, metric_events_new, engine,
                                    emitted_updates, replicas, last_published>>
                ELSE /\ chain_cache' = update_account(chain_cache, pubkey, write)
                     /\ replay' = Held(chain_cache, pubkey, write)
                     /\ Rescan(chain_cache')
    /\ UNCHANGED <<market_configs, serum_market_configs, receiver_open>>
    /\ UNCHANGED <<diffVars, fetcherVars>>

RecvAccountWrite ==
    AccountWriteEvent(relevant_pubkeys \cup {OtherPubkey}, Slots, WriteVersions, MaxEvents)

\* Ok(slot_update) = slot_queue_receiver.recv(), then the scan, for a slot
\* update drawn from the given slots, parents and statuses
SlotUpdateEvent(slots, parents, statuses, max_events) ==
    /\ engine = "running" /\ events < max_events
    /\ \E slot \in slots, parent \in parents, status \in statuses :
          /\ parent < slot
          /\ chain_cache' = update_slot(chain_cache,
                [slot |-> slot, parent |-> parent, status |-> status, chain |-> 0])
          /\ Rescan(chain_cache')
    /\ events' = events + 1
    /\ replay' = FALSE
    /\ UNCHANGED <<market_configs, serum_market_configs, receiver_open>>
    /\ UNCHANGED <<diffVars, fetcherVars>>

RecvSlotUpdate ==
    SlotUpdateEvent(Slots, {NoParent} \cup 0..(MaxSlot - 1), Statuses, MaxEvents)

\* the stream of one side across forks: writes of the native bids account and
\* Processed slots with known parents, over slots 1..MaxForkSlot
ForkAccountWrite ==
    AccountWriteEvent({NativeMarket.bids}, 1..MaxForkSlot, {1}, MaxForkEvents)

ForkSlotUpdate ==
    SlotUpdateEvent(1..MaxForkSlot, 0..(MaxForkSlot - 1), {"Processed"}, MaxForkEvents)

\* the consumer drops fill_update_receiver: the channel is closed from then on
DropReceiver ==
    /\ receiver_open
    /\ receiver_open' = FALSE
    /\ UNCHANGED <<market_configs, serum_market_configs, chain_cache, bookside_cache,
                   serum_bookside_cache, last_write_versions, metric_events_new,
                   engine, fill_updates, pass, replay, emitted_updates, replicas,
                   last_published, events>>
    /\ UNCHANGED <<diffVars, fetcherVars>>

EngineNext ==
    \/ RecvAccountWrite
    \/ RecvSlotUpdate
    \/ DropReceiver

\* --------------------------------------------- the diff as a pure function
\* a level in UI units from ticks and lots, as the decoders build it
Level(p, q, mkt) ==
    [price |-> native_to_ui(p, mkt.quote_decimals),
     size |-> native_to_ui(q, mkt.base_decimals)]

UniquePrices(levels) ==
    \A i, j \in DOMAIN levels : levels[i].price = levels[j].price => i = j

\* the level lists a bookside cache can hold: unique prices, any order
LevelLists(mkt) ==
    LET L == {Level(p, q, mkt) : p \in 1..MaxPrice, q \in 0..MaxQty}
    IN {s \in UNION {[1..n -> L] : n \in 0..MaxLevels} : UniquePrices(s)}

DiffIdle ==
    /\ diff_in = [mkt |-> NativeMarket, previous |-> <<>>, current |-> <<>>]
    /\ diff_out = None

DiffInit ==
    /\ \E mkt \in {NativeMarket, SerumMarket} :
         \E previous \in LevelLists(mkt), current \in LevelLists(mkt) :
            diff_in = [mkt |-> mkt, previous |-> previous, current |-> current]
    /\ diff_out = None

\* publish_changes(slot, write_version, mkt, side, current, previous, other, ..)
CallPublishChanges ==
    /\ diff_out = None
    /\ diff_in.mkt = NativeMarket
    /\ \E side \in {"Bid", "Ask"}, other \in {None, Some(<<>>)} :
          diff_out' = Some([side |-> side, other |-> other,
                            result |-> publish_changes(1, 1, diff_in.mkt, side,
                                          diff_in.current, diff_in.previous, other, TRUE)])
    /\ UNCHANGED <<diff_in, engineVars, fetcherVars>>

\* publish_changes_serum(slot, write_version, mkt, side, current, previous, other, ..)
CallPublishChangesSerum ==
    /\ diff_out = None
    /\ diff_in.mkt = SerumMarket
    /\ \E side \in {"Bid", "Ask"}, other \in {None, Some(<<>>)} :
          diff_out' = Some([side |-> side, other |-> other,
                            result |-> publish_changes_serum(1, 1, diff_in.mkt, side,
                                          diff_in.current, diff_in.previous, other, TRUE)])
    /\ UNCHANGED <<diff_in, engineVars, fetcherVars>>

\* ------------------------------------------------------ ChainDataFetcher
\* the addresses callers fetch and poll
FetchAddresses == {"acc_a", "acc_b"}
Programs == {"prog_a", "prog_b"}

\* length of an account discriminator
DiscLen == 8

Bytes(n, b) == [i \in 1..n |-> b]

\* account data: empty, one byte short of a discriminator, exactly a
\* discriminator, a discriminator followed by a byte
AccountDatas ==
    { <<>>, Bytes(DiscLen - 1, 0), Bytes(DiscLen, 0), Bytes(DiscLen - 1, 0) \o <<1>>,
      Bytes(DiscLen, 0) \o <<1>> }

Discriminators == {Bytes(DiscLen, 0), Bytes(DiscLen - 1, 0) \o <<1>>}

Accounts == {[owner |-> o, data |-> d] : o \in Programs, d \in AccountDatas}

\* what the chain holds for an address at a slot: what the stream and the RPC report
ChainAccount(address, slot) ==
    [owner |-> "prog_a", data |-> Bytes(DiscLen, 0) \o <<slot>>]

\* fetch_raw_account_sync: Some(account) or None (the NotFound error)
fetch_raw_account_sync(cd, address) ==
    LET found == account(cd, address)
    IN IF found = None THEN None ELSE Some(found[1].account)

\* mutant of ProgramAccountMatches: data of exactly 8 bytes is rejected
ProgramAccountMatchesStrict(data, program, discriminator) ==
    /\ ~(data.account.owner # program)
    /\ ~(Len(data.account.data) <= DiscLen
         \/ SubSeq(data.account.data, 1, DiscLen) # discriminator)

\* the filter_map closure: whether the closure yields Some for this entry
ProgramAccountMatches(data, program, discriminator) ==
    /\ ~(data.account.owner # program)
    /\ ~(Len(data.account.data) < DiscLen
         \/ SubSeq(data.account.data, 1, DiscLen) # discriminator)

\* fetch_program_accounts_sync: always Ok, with the (address, account) pairs kept
fetch_program_accounts_sync(cd, program, discriminator) ==
    [ok |-> TRUE,
     accounts |-> {<<e[1], e[2].account>> :
                     e \in {x \in iter_accounts(cd) :
                               ProgramAccountMatches(x[2], program, discriminator)}}]

\* the RPC node's answers to get_account_with_commitment
RpcResponses(address) ==
    {[kind |-> "error", slot |-> 0]}
    \cup {[kind |-> k, slot |-> s] : k \in {"ok", "absent"}, s \in Slots}

\* mutant of NeedsSlotRecord: the slot record is inserted unconditionally
NeedsSlotRecordAlways(best, slot) == TRUE

\* mutant of NeedsSlotRecord: a slot equal to the best slot is recorded too
NeedsSlotRecordAtLeast(best, slot) == best <= slot

\* if best_chain_slot < slot
NeedsSlotRecord(best, slot) == best < slot

\* mutant of refresh_account_via_rpc: a missing account is reported as data of
\* slot 0 instead of an error
refresh_account_via_rpc_lenient(cd, address, response) ==
    IF response.kind = "error"
    THEN [cd |-> cd, ok |-> FALSE, err |-> "RpcError", slot |-> 0, ops |-> <<>>]
    ELSE IF response.kind = "absent"
    THEN [cd |-> cd, ok |-> TRUE, err |-> "", slot |-> 0, ops |-> <<>>]
    ELSE LET slot == response.slot
             best == best_chain_slot(cd)
             rec == [slot |-> slot, parent |-> best, status |-> "Processed", chain |-> 0]
             snap == [slot |-> slot, write_version |-> 1,
                      account |-> ChainAccount(address, slot)]
             cd1 == IF NeedsSlotRecord(best, slot) THEN update_slot(cd, rec) ELSE cd
             cd2 == update_account(cd1, address, snap)
         IN [cd |-> cd2, ok |-> TRUE, err |-> "", slot |-> slot,
             ops |-> (IF NeedsSlotRecord(best, slot)
                      THEN <<[op |-> "update_slot", rec |-> rec]>> ELSE <<>>)
                     \o <<[op |-> "update_account", address |-> address, snap |-> snap]>>]

\* mutant of refresh_account_via_rpc: the slot of the response is recorded before
\* the account is found missing
refresh_account_via_rpc_eager(cd, address, response) ==
    IF response.kind = "error"
    THEN [cd |-> cd, ok |-> FALSE, err |-> "RpcError", slot |-> 0, ops |-> <<>>]
    ELSE LET slot == response.slot
             best == best_chain_slot(cd)
             rec == [slot |-> slot, parent |-> best, status |-> "Processed", chain |-> 0]
             snap == [slot |-> slot, write_version |-> 1,
                      account |-> ChainAccount(address, slot)]
             cd1 == IF NeedsSlotRecord(best, slot) THEN update_slot(cd, rec) ELSE cd
             cd2 == update_account(cd1, address, snap)
             slotOps == IF NeedsSlotRecord(best, slot)
                        THEN <<[op |-> "update_slot", rec |-> rec]>> ELSE <<>>
         IN IF response.kind = "absent"
            THEN [cd |-> cd1, ok |-> FALSE, err |-> "NotFound", slot |-> 0,
                  ops |-> slotOps]
            ELSE [cd |-> cd2, ok |-> TRUE, err |-> "", slot |-> slot,
                  ops |-> slotOps
                          \o <<[op |-> "update_account", address |-> address,
                                snap |-> snap]>>]

\* refresh_account_via_rpc once the response is in: the cache after the write-lock
\* section and the result (Ok(slot), or the error)
refresh_account_via_rpc(cd, address, response) ==
    IF response.kind = "error"
    THEN [cd |-> cd, ok |-> FALSE, err |-> "RpcError", slot |-> 0, ops |-> <<>>]
    ELSE IF response.kind = "absent"
    THEN [cd |-> cd, ok |-> FALSE, err |-> "NotFound", slot |-> 0, ops |-> <<>>]
    ELSE LET slot == response.slot
             best == best_chain_slot(cd)
             rec == [slot |-> slot, parent |-> best, status |-> "Processed", chain |-> 0]
             snap == [slot |-> slot, write_version |-> 1,
                      account |-> ChainAccount(address, slot)]
             cd1 == IF NeedsSlotRecord(best, slot) THEN update_slot(cd, rec) ELSE cd
             cd2 == update_account(cd1, address, snap)
         IN [cd |-> cd2, ok |-> TRUE, err |-> "", slot |-> slot,
             ops |-> (IF NeedsSlotRecord(best, slot)
                      THEN <<[op |-> "update_slot", rec |-> rec]>> ELSE <<>>)
                     \o <<[op |-> "update_account", address |-> address, snap |-> snap]>>]

\* the tasks that call into the fetcher concurrently
Callers == {"c1", "c2"}

\* a call that has not started.  first / second: <<>> or <<the lookup's result>>;
\* refreshed: <<>> or <<the refresh's result>>; ops: the cache calls made under
\* the write lock; result: <<>> or <<what the call returned>>; best_chain_slot:
\* the local of that name, read inside the write-lock section
CallIdle ==
    [pc |-> "idle", op |-> "", address |-> "", response |-> None, rpcs |-> 0,
     first |-> <<>>, second |-> <<>>, refreshed |-> <<>>, ops |-> <<>>, result |-> <<>>,
     best_chain_slot |-> 0]

PollIdle ==
    [pc |-> "idle", addresses |-> <<>>, min_slot |-> 0, timeout |-> 0, i |-> 0,
     result |-> "", who |-> "", response |-> None]

FetcherIdle ==
    /\ chain_data = ChainDataNew
    /\ poll = PollIdle
    /\ elapsed = 0
    /\ seen = <<>>
    /\ attempted = {}
    /\ issued_late = FALSE
    /\ updates = 0
    /\ scan = None
    /\ calls = [p \in Callers |-> CallIdle]
    /\ wrapped = None

\* the largest value `elapsed` takes: one unit past the longest timeout
MaxElapsed == MaxTimeout + 1

AddressLists == {<<>>, <<"acc_a">>, <<"acc_a", "acc_b">>}

\* the external updater job: chain_data.write().update_slot(..)
UpdaterSlot ==
    /\ updates < MaxUpdates /\ poll.pc # "done"
    /\ \E slot \in Slots, parent \in {NoParent} \cup 0..(MaxSlot - 1), status \in Statuses :
          /\ parent < slot
          /\ chain_data' = update_slot(chain_data,
                [slot |-> slot, parent |-> parent, status |-> status, chain |-> 0])
    /\ updates' = updates + 1
    /\ UNCHANGED <<poll, elapsed, seen, attempted, issued_late, scan>>
    /\ UNCHANGED <<engineVars, diffVars, callVars>>

\* the external updater job: chain_data.write().update_account(..) of a streamed write
UpdaterAccount ==
    /\ updates < MaxUpdates /\ poll.pc # "done"
    /\ \E address \in FetchAddresses, slot \in Slots, write_version \in WriteVersions :
          chain_data' = update_account(chain_data, address,
                [slot |-> slot, write_version |-> write_version,
                 account |-> ChainAccount(address, slot)])
    /\ updates' = updates + 1
    /\ UNCHANGED <<poll, elapsed, seen, attempted, issued_late, scan>>
    /\ UNCHANGED <<engineVars, diffVars, callVars>>

\* a caller enters refresh_accounts_via_rpc_until_slot: let start = Instant::now()
StartPoll ==
    /\ poll.pc = "idle"
    /\ \E addresses \in AddressLists, min_slot \in Slots, timeout \in 0..MaxTimeout :
          poll' = IF addresses = <<>>
                  THEN [PollIdle EXCEPT !.pc = "done", !.result = "Ok",
                                        !.min_slot = min_slot, !.timeout = timeout]
                  ELSE [pc |-> "check", addresses |-> addresses, min_slot |-> min_slot,
                        timeout |-> timeout, i |-> 1, result |-> "", who |-> "",
                        response |-> None]
    /\ elapsed' = 0
    /\ seen' = [i \in {} |-> 0]
    /\ UNCHANGED <<chain_data, attempted, issued_late, updates, scan>>
    /\ UNCHANGED <<engineVars, diffVars, callVars>>

\* mutant of DeadlineExpired: the deadline is never noticed
DeadlineNever(t, timeout) == FALSE

\* mutant of DeadlineExpired: the deadline counts as passed when it is just reached
DeadlineReached(t, timeout) == t >= timeout

\* if start.elapsed() > timeout
DeadlineExpired(t, timeout) == t > timeout

\* the top of the inner loop: bail on the deadline, else send the RPC request
PollCheck ==
    /\ poll.pc = "check"
    /\ IF DeadlineExpired(elapsed, poll.timeout)
       THEN /\ poll' = [poll EXCEPT !.pc = "done", !.result = "Timeout",
                                    !.who = poll.addresses[poll.i]]
            /\ UNCHANGED <<attempted, issued_late>>
       ELSE /\ poll' = [poll EXCEPT !.pc = "rpc"]
            /\ attempted' = attempted \cup {poll.i}
            /\ issued_late' = (issued_late \/ elapsed > poll.timeout)
    /\ UNCHANGED <<chain_data, elapsed, seen, updates, scan>>
    /\ UNCHANGED <<engineVars, diffVars, callVars>>

\* if data_slot >= min_slot { break; }
SlotReached(data_slot, min_slot) == data_slot >= min_slot

\* the response arrives: the rest of refresh_account_via_rpc under the write
\* lock, then `?`, the slot test, and the break or the sleep
PollRpcResponse ==
    /\ poll.pc = "rpc"
    /\ \E response \in RpcResponses(poll.addresses[poll.i]) :
        \E r \in {refresh_account_via_rpc(chain_data, poll.addresses[poll.i], response)} :
          /\ chain_data' = r.cd
          /\ IF ~r.ok
             THEN /\ poll' = [poll EXCEPT !.pc = "done", !.result = r.err,
                                          !.who = poll.addresses[poll.i],
                                          !.response = Some(response)]
                  /\ seen' = seen
             ELSE /\ seen' = Insert(seen, poll.i,
                                IF poll.i \in DOMAIN seen /\ seen[poll.i] > r.slot
                                THEN seen[poll.i] ELSE r.slot)
                  /\ poll' = IF SlotReached(r.slot, poll.min_slot)
                             THEN IF poll.i < Len(poll.addresses)
                                  THEN [poll EXCEPT !.pc = "check", !.i = poll.i + 1,
                                                    !.response = Some(response)]
                                  ELSE [poll EXCEPT !.pc = "done", !.result = "Ok",
                                                    !.response = Some(response)]
                             ELSE [poll EXCEPT !.pc = "sleep",
                                               !.response = Some(response)]
    /\ UNCHANGED <<elapsed, attempted, issued_late, updates, scan>>
    /\ UNCHANGED <<engineVars, diffVars, callVars>>

\* thread::sleep(Duration::from_millis(500)) returns
PollWake ==
    /\ poll.pc = "sleep"
    /\ poll' = [poll EXCEPT !.pc = "check"]
    /\ elapsed' = IF elapsed < MaxElapsed THEN elapsed + 1 ELSE elapsed
    /\ UNCHANGED <<chain_data, seen, attempted, issued_late, updates, scan>>
    /\ UNCHANGED <<engineVars, diffVars, callVars>>

\* wall-clock time passes while the call runs or awaits the RPC
Tick ==
    /\ poll.pc \in {"check", "rpc"}
    /\ elapsed < MaxElapsed
    /\ elapsed' = elapsed + 1
    /\ UNCHANGED <<chain_data, poll, seen, attempted, issued_late, updates, scan>>
    /\ UNCHANGED <<engineVars, diffVars, callVars>>

\* --------------------------------------- concurrent refreshes and lookups
Ok(value) == [ok |-> TRUE, value |-> value]
Err(error) == [ok |-> FALSE, value |-> error]

\* fetch_raw_account_sync as a Result: Ok(account), or the NotFound error
FetchResult(found) == IF found = None THEN Err("NotFound") ELSE Ok(found[1])

\* mutant of LookupHit: the cached snapshot is ignored and the RPC always asked
LookupHitNever(found) == FALSE

\* if let Ok(alt) = self.fetch_raw_account_sync(address)
LookupHit(found) == found # None

\* a task calls refresh_account_via_rpc(address) (the request goes out) or
\* fetch_raw_account_lookup_table(address)
StartCall(p) ==
    /\ calls[p].pc = "idle"
    /\ \E op \in {"refresh", "lookup_table"}, address \in FetchAddresses :
          calls' = [calls EXCEPT ![p] =
                      [CallIdle EXCEPT !.op = op, !.address = address,
                                       !.pc = IF op = "refresh" THEN "rpc" ELSE "lookup1",
                                       !.rpcs = IF op = "refresh" THEN 1 ELSE 0]]
    /\ UNCHANGED <<chain_data, poll, elapsed, seen, attempted, issued_late, updates, scan,
                   wrapped>>
    /\ UNCHANGED <<engineVars, diffVars>>

\* fetch_raw_account_lookup_table: the first cache lookup, under the read lock;
\* a hit returns, a miss sends the RPC request
Lookup1(p) ==
    /\ calls[p].pc = "lookup1"
    /\ LET found == fetch_raw_account_sync(chain_data, calls[p].address)
       IN calls' = [calls EXCEPT ![p] =
                      IF LookupHit(found)
                      THEN [@ EXCEPT !.pc = "done", !.first = <<FetchResult(found)>>,
                                     !.result = <<FetchResult(found)>>]
                      ELSE [@ EXCEPT !.pc = "rpc", !.first = <<FetchResult(found)>>,
                                     !.rpcs = @ + 1]]
    /\ UNCHANGED <<chain_data, poll, elapsed, seen, attempted, issued_late, updates, scan,
                   wrapped>>
    /\ UNCHANGED <<engineVars, diffVars>>

\* the RPC node answers: an error or a missing account ends the call (`?`), an
\* account is held until the task takes the write lock
RpcAnswer(p) ==
    /\ calls[p].pc = "rpc"
    /\ \E response \in RpcResponses(calls[p].address) :
          IF response.kind = "ok"
          THEN /\ calls' = [calls EXCEPT ![p] = [@ EXCEPT !.pc = "lock",
                                                          !.response = Some(response)]]
               /\ chain_data' = chain_data
          ELSE LET r == refresh_account_via_rpc(chain_data, calls[p].address, response)
               IN /\ calls' = [calls EXCEPT ![p] =
                                 [@ EXCEPT !.pc = "done", !.response = Some(response),
                                           !.refreshed = <<Err(r.err)>>,
                                           !.ops = r.ops, !.result = <<Err(r.err)>>]]
                  /\ chain_data' = r.cd
    /\ UNCHANGED <<poll, elapsed, seen, attempted, issued_late, updates, scan, wrapped>>
    /\ UNCHANGED <<engineVars, diffVars>>

\* refresh_account_via_rpc from self.chain_data.write() to Ok(slot): one
\* exclusive section
LockApply(p) ==
    /\ calls[p].pc = "lock"
    /\ \E r \in {refresh_account_via_rpc(chain_data, calls[p].address,
                                          calls[p].response[1])} :
          /\ chain_data' = r.cd
          /\ calls' = [calls EXCEPT ![p] =
                         IF calls[p].op = "refresh"
                         THEN [@ EXCEPT !.pc = "done", !.refreshed = <<Ok(r.slot)>>,
                                        !.ops = r.ops, !.result = <<Ok(r.slot)>>]
                         ELSE [@ EXCEPT !.pc = "lookup2", !.refreshed = <<Ok(r.slot)>>,
                                        !.ops = r.ops]]
    /\ UNCHANGED <<poll, elapsed, seen, attempted, issued_late, updates, scan, wrapped>>
    /\ UNCHANGED <<engineVars, diffVars>>

\* fetch_raw_account_lookup_table: the cache lookup retried after the refresh
Lookup2(p) ==
    /\ calls[p].pc = "lookup2"
    /\ LET found == fetch_raw_account_sync(chain_data, calls[p].address)
       IN calls' = [calls EXCEPT ![p] =
                      [@ EXCEPT !.pc = "done", !.second = <<FetchResult(found)>>,
                                !.result = <<FetchResult(found)>>]]
    /\ UNCHANGED <<chain_data, poll, elapsed, seen, attempted, issued_late, updates, scan,
                   wrapped>>
    /\ UNCHANGED <<engineVars, diffVars>>

\* ------------------------------------------- the program scan as a function
\* caches the updater can have built: slot records for a subset of the slots
\* (chained 0 <- 1 <- 2 ..), and per address no version or one version at a slot
RECURSIVE WithSlots(_, _, _)
WithSlots(cd, known, s) ==
    IF s > MaxSlot THEN cd
    ELSE WithSlots(IF s \in known
                   THEN update_slot(cd, [slot |-> s, parent |-> s - 1,
                                         status |-> "Processed", chain |-> 0])
                   ELSE cd, known, s + 1)

WithAccount(cd, address, version) ==
    IF version = None THEN cd ELSE update_account(cd, address, version[1])

Versions ==
    {None} \cup {Some([slot |-> s, write_version |-> 1, account |-> a]) :
                    s \in Slots, a \in Accounts}

ScanInit ==
    /\ \E known \in SUBSET Slots, va \in Versions, vb \in Versions :
          chain_data = WithAccount(WithAccount(WithSlots(ChainDataNew, known, 1),
                                               "acc_a", va), "acc_b", vb)
    /\ poll = PollIdle
    /\ elapsed = 0
    /\ seen = <<>>
    /\ attempted = {}
    /\ issued_late = FALSE
    /\ updates = 0
    /\ scan = None
    /\ calls = [p \in Callers |-> CallIdle]
    /\ wrapped = None

\* a caller runs fetch_program_accounts_sync(program, discriminator)
FetchProgramAccountsSync ==
    /\ scan = None
    /\ \E program \in Programs, discriminator \in Discriminators :
          scan' = Some([program |-> program, discriminator |-> discriminator,
                        result |-> fetch_program_accounts_sync(chain_data, program,
                                                               discriminator)])
    /\ UNCHANGED <<chain_data, poll, elapsed, seen, attempted, issued_late, updates>>
    /\ UNCHANGED <<engineVars, diffVars, callVars>>

\* ------------------------------------------- the sync-to-async adapter
\* WrappedAccountFetcher over a synchronous fetcher reading the cache cd.  Each
\* operation yields its result, the cache afterwards and the RPC requests sent.
WrappedAccountFetcher_fetch_raw_account(cd, address) ==
    [result |-> fetch_raw_account_sync(cd, address), cd |-> cd, rpcs |-> 0]

WrappedAccountFetcher_fetch_program_accounts(cd, program, discriminator) ==
    [result |-> fetch_program_accounts_sync(cd, program, discriminator),
     cd |-> cd, rpcs |-> 0]

\* mutant of WrappedAccountFetcher_fetch_raw_account_lookup_table: the lookup
\* falls back to an RPC refresh on a miss, as ChainDataFetcher's own does
LookupTableWithRpcFallback(cd, address) ==
    IF LookupHit(account(cd, address))
    THEN [result |-> fetch_raw_account_sync(cd, address), cd |-> cd, rpcs |-> 0]
    ELSE LET r == refresh_account_via_rpc(cd, address, [kind |-> "ok", slot |-> 1])
         IN [result |-> fetch_raw_account_sync(r.cd, address), cd |-> r.cd, rpcs |-> 1]

\* the adapter does not override fetch_raw_account_lookup_table: the trait's
\* default body, self.fetch_raw_account(address)
WrappedAccountFetcher_fetch_raw_account_lookup_table(cd, address) ==
    WrappedAccountFetcher_fetch_raw_account(cd, address)

\* a caller runs one operation of wrap_account_fetcher_async(fetcher)
CallWrapped ==
    /\ wrapped = None
    /\ \/ \E address \in FetchAddresses :
             LET r == WrappedAccountFetcher_fetch_raw_account(chain_data, address)
             IN /\ wrapped' = Some([op |-> "fetch_raw_account", address |-> address,
                                    program |-> "", discriminator |-> <<>>,
                                    result |-> r.result, rpcs |-> r.rpcs])
                /\ chain_data' = r.cd
       \/ \E address \in FetchAddresses :
             LET r == WrappedAccountFetcher_fetch_raw_account_lookup_table(chain_data,
                                                                          address)
             IN /\ wrapped' = Some([op |-> "fetch_raw_account_lookup_table",
                                    address |-> address,
                                    program |-> "", discriminator |-> <<>>,
                                    result |-> r.result, rpcs |-> r.rpcs])
                /\ chain_data' = r.cd
       \/ \E program \in Programs, discriminator \in Discriminators :
             LET r == WrappedAccountFetcher_fetch_program_accounts(chain_data, program,
                                                                  discriminator)
             IN /\ wrapped' = Some([op |-> "fetch_program_accounts", address |-> "",
                                    program |-> program, discriminator |-> discriminator,
                                    result |-> r.result, rpcs |-> r.rpcs])
                /\ chain_data' = r.cd
    /\ UNCHANGED <<poll, elapsed, seen, attempted, issued_late, updates, scan, calls>>
    /\ UNCHANGED <<engineVars, diffVars>>

\* ------------------------------------------------------- specifications
vars == <<engineVars, diffVars, fetcherVars>>

Init == EngineInit /\ DiffIdle /\ FetcherIdle
Next == EngineNext
Spec == Init /\ [][Next]_vars

InitFork == EngineInit /\ DiffIdle /\ FetcherIdle
NextFork ==
    \/ ForkAccountWrite
    \/ ForkSlotUpdate
SpecFork == InitFork /\ [][NextFork]_vars

InitDiff == EngineInit /\ DiffInit /\ FetcherIdle
NextDiff ==
    \/ CallPublishChanges
    \/ CallPublishChangesSerum
SpecDiff == InitDiff /\ [][NextDiff]_vars

InitFetcher == EngineInit /\ DiffIdle /\ FetcherIdle
NextFetcher ==
    \/ UpdaterSlot
    \/ UpdaterAccount
    \/ StartPoll
    \/ PollCheck
    \/ PollRpcResponse
    \/ PollWake
    \/ Tick
SpecFetcher == InitFetcher /\ [][NextFetcher]_vars

InitRefresh == EngineInit /\ DiffIdle /\ FetcherIdle
NextRefresh ==
    \/ UpdaterSlot
    \/ UpdaterAccount
    \/ \E p \in Callers : StartCall(p)
    \/ \E p \in Callers : Lookup1(p)
    \/ \E p \in Callers : RpcAnswer(p)
    \/ \E p \in Callers : LockApply(p)
    \/ \E p \in Callers : Lookup2(p)
SpecRefresh == InitRefresh /\ [][NextRefresh]_vars

\* ------------------------- the write-lock section, statement by statement
\* the tasks whose guard `let mut chain_data = self.chain_data.write().unwrap()`
\* is alive: between taking the lock and returning Ok(slot)
WriteGuards == {p \in Callers : calls[p].pc \in {"locked", "slot_done"}}

\* mutant of LockFree: the lock excludes nobody
LockFreeAlways(guards) == TRUE

\* RwLock: read() and write() return only while no writer's guard is alive
\* (readers hold their guard for one lookup, which is one step here)
LockFree(guards) == guards = {}

\* let mut chain_data = self.chain_data.write().unwrap();
\* let best_chain_slot = chain_data.best_chain_slot();
AcquireWrite(p) ==
    /\ calls[p].pc = "lock"
    /\ LockFree(WriteGuards)
    /\ calls' = [calls EXCEPT ![p] =
                    [@ EXCEPT !.pc = "locked",
                              !.best_chain_slot = best_chain_slot(chain_data)]]
    /\ UNCHANGED <<chain_data, poll, elapsed, seen, attempted, issued_late, updates, scan,
                   wrapped>>
    /\ UNCHANGED <<engineVars, diffVars>>

\* if best_chain_slot < slot { chain_data.update_slot(SlotData { .. }) }
SectionUpdateSlot(p) ==
    /\ calls[p].pc = "locked"
    /\ LET slot == calls[p].response[1].slot
           rec == [slot |-> slot, parent |-> calls[p].best_chain_slot,
                   status |-> "Processed", chain |-> 0]
       IN IF NeedsSlotRecord(calls[p].best_chain_slot, slot)
          THEN /\ chain_data' = update_slot(chain_data, rec)
               /\ calls' = [calls EXCEPT ![p] =
                              [@ EXCEPT !.pc = "slot_done",
                                        !.ops = <<[op |-> "update_slot", rec |-> rec]>>]]
          ELSE /\ chain_data' = chain_data
               /\ calls' = [calls EXCEPT ![p] = [@ EXCEPT !.pc = "slot_done"]]
    /\ UNCHANGED <<poll, elapsed, seen, attempted, issued_late, updates, scan, wrapped>>
    /\ UNCHANGED <<engineVars, diffVars>>

\* chain_data.update_account(*address, AccountData { .. }); Ok(slot): the guard
\* is dropped on return
SectionUpdateAccount(p) ==
    /\ calls[p].pc = "slot_done"
    /\ LET slot == calls[p].response[1].slot
           snap == [slot |-> slot, write_version |-> 1,
                    account |-> ChainAccount(calls[p].address, slot)]
           op == [op |-> "update_account", address |-> calls[p].address, snap |-> snap]
       IN /\ chain_data' = update_account(chain_data, calls[p].address, snap)
          /\ calls' = [calls EXCEPT ![p] =
                         IF calls[p].op = "refresh"
                         THEN [@ EXCEPT !.pc = "done", !.refreshed = <<Ok(slot)>>,
                                        !.ops = @ \o <<op>>, !.result = <<Ok(slot)>>]
                         ELSE [@ EXCEPT !.pc = "lookup2", !.refreshed = <<Ok(slot)>>,
                                        !.ops = @ \o <<op>>]]
    /\ UNCHANGED <<poll, elapsed, seen, attempted, issued_late, updates, scan, wrapped>>
    /\ UNCHANGED <<engineVars, diffVars>>

\* self.chain_data.read().unwrap() in fetch_raw_account_sync: the lookups wait
\* for the lock
ReadLookup1(p) == LockFree(WriteGuards) /\ Lookup1(p)
ReadLookup2(p) == LockFree(WriteGuards) /\ Lookup2(p)

\* the updater's chain_data.write(): it waits for the lock as well
LockedUpdaterSlot == LockFree(WriteGuards) /\ UpdaterSlot
LockedUpdaterAccount == LockFree(WriteGuards) /\ UpdaterAccount

NextLock ==
    \/ LockedUpdaterSlot
    \/ LockedUpdaterAccount
    \/ \E p \in Callers : StartCall(p)
    \/ \E p \in Callers : ReadLookup1(p)
    \/ \E p \in Callers : RpcAnswer(p)
    \/ \E p \in Callers : AcquireWrite(p)
    \/ \E p \in Callers : SectionUpdateSlot(p)
    \/ \E p \in Callers : SectionUpdateAccount(p)
    \/ \E p \in Callers : ReadLookup2(p)
SpecLock == InitRefresh /\ [][NextLock]_vars

InitScan == EngineInit /\ DiffIdle /\ ScanInit
NextScan ==
    \/ FetchProgramAccountsSync
    \/ CallWrapped
SpecScan == InitScan /\ [][NextScan]_vars

\* ================================================================ claims

\* the level list of the Update among msgs, <<>> when no Update was enqueued
UpdateLevels(msgs) ==
    LET ups == SelectSeq(msgs, LAMBDA m : m.type = "Update")
    IN IF ups = <<>> THEN <<>> ELSE ups[1].update

NoZeroSize(levels) == \A i \in DOMAIN levels : levels[i].size # ZeroSize

\* C1 (as stated): for every previous P and current C with unique prices, applying
\* the levels U of the emitted Update to P yields exactly the level set C.
C1_DiffAppliesToAnyCurrent ==
    diff_out # None =>
        ApplyUpdate(UpdateLevels(diff_out[1].result.msgs), Range(diff_in.previous))
            = Range(diff_in.current)

\* C1 (amended): for every previous P and current C with unique prices, C holding
\* no level of size 0, applying the levels U of the emitted Update to P (size 0
\* deletes the price, any other level upserts) yields exactly the level set C.
C1_DiffCorrect ==
    (diff_out # None /\ NoZeroSize(diff_in.current)) =>
        ApplyUpdate(UpdateLevels(diff_out[1].result.msgs), Range(diff_in.previous))
            = Range(diff_in.current)

\* a call whose Update carries a removal and a changed size, for a current book
\* without zero sizes
C1_Witness ==
    /\ diff_out # None
    /\ NoZeroSize(diff_in.current)
    /\ LET U == UpdateLevels(diff_out[1].result.msgs)
       IN /\ \E i \in DOMAIN U : U[i].size = ZeroSize
          /\ \E i \in DOMAIN U : \E j \in DOMAIN diff_in.previous :
                /\ U[i].price = diff_in.previous[j].price
                /\ U[i].size # ZeroSize

\* the sides of the last pass whose version differed from the dedup key and
\* whose bytes decoded
Processed(i) == pass[i].kind \in {"first", "published", "sendfail"}

\* the sides of the last pass for which the loop body ran to its end and stored
\* the newly decoded snapshot
Stored(i) == pass[i].kind \in {"first", "published"}

C3_ReplayIsIdempotent ==
    [][(replay' /\ events' = events + 1) =>
          /\ fill_updates' = <<>>
          /\ bookside_cache' = bookside_cache
          /\ serum_bookside_cache' = serum_bookside_cache
          /\ last_write_versions' = last_write_versions
          /\ metric_events_new' = metric_events_new]_vars

\* a redelivered write of a side whose snapshot is cached: the pass it triggers
\* skips that side by its dedup key
C3_Witness ==
    /\ replay
    /\ engine = "running"
    /\ \E i \in DOMAIN pass : pass[i].kind = "dedup" /\ pass[i].was_cached

AllLevelLists ==
    {bookside_cache[pk] : pk \in DOMAIN bookside_cache}
    \cup {serum_bookside_cache[pk] : pk \in DOMAIN serum_bookside_cache}

\* C4: no two levels of a cached OrderbookSnapshot share a price, and no two
\* levels of an emitted OrderbookUpdate share a price (the decoded orders being
\* price-sorted).
C4_UniquePrices ==
    /\ \A levels \in AllLevelLists : UniquePrices(levels)
    /\ \A m \in Range(fill_updates) : m.type = "Update" => UniquePrices(m.update)

\* two orders of one price were merged into one cached level, and an Update
\* carrying that level was emitted
MergedLevel == DecodeLevels(<<Order(1, 1), Order(1, 1)>>, NativeMarket)[1]

C4_Witness ==
    /\ \E levels \in AllLevelLists : \E i \in DOMAIN levels : levels[i] = MergedLevel
    /\ \E m \in Range(fill_updates) :
          m.type = "Update" /\ \E i \in DOMAIN m.update : m.update[i] = MergedLevel

Satisfied(i) == i \in DOMAIN seen /\ seen[i] >= poll.min_slot

\* C5: the polling call returns success only if every address had a refresh that
\* returned a slot >= min_slot; a refresh of an address is issued only after every
\* earlier address was observed at a slot >= min_slot; no refresh is issued once
\* the deadline is found passed; and a call that ends by the timeout names the
\* address it was at, which is unsatisfied, with no later address ever refreshed.
C5_PollingAllOrNothing ==
    /\ poll.result = "Ok" => \A i \in DOMAIN poll.addresses : Satisfied(i)
    /\ \A i \in attempted : \A j \in 1..(i - 1) : Satisfied(j)
    /\ ~issued_late
    /\ poll.result = "Timeout" =>
          /\ poll.who = poll.addresses[poll.i]
          /\ ~Satisfied(poll.i)
          /\ elapsed > poll.timeout
          /\ attempted \subseteq 1..poll.i

\* the first of two addresses was satisfied, the second was refreshed below
\* min_slot, and the call then ended by the timeout naming the second
C5_Witness ==
    /\ poll.result = "Timeout"
    /\ Len(poll.addresses) = 2 /\ poll.i = 2
    /\ poll.who = "acc_b"
    /\ attempted = {1, 2}
    /\ 2 \in DOMAIN seen /\ seen[2] < poll.min_slot

\* C6: when the polling call returns success, the cache lookup of every address
\* of the list succeeds and resolves to a snapshot whose slot is >= min_slot.
C6_SuccessMeansCacheHasData ==
    poll.result = "Ok" =>
        \A i \in DOMAIN poll.addresses :
            LET found == account(chain_data, poll.addresses[i])
            IN found # None /\ found[1].slot >= poll.min_slot

\* C7: fetch_program_accounts_sync succeeds, and returns exactly the resolved
\* current snapshots owned by the program whose data has at least 8 bytes, the
\* first 8 equal to the discriminator.
C7_ProgramScanFilter ==
    scan # None =>
        /\ scan[1].result.ok
        /\ scan[1].result.accounts =
              {<<pk, account(chain_data, pk)[1].account>> :
                 pk \in {a \in FetchAddresses :
                           LET found == account(chain_data, a)
                           IN /\ found # None
                              /\ found[1].account.owner = scan[1].program
                              /\ Len(found[1].account.data) >= 8
                              /\ SubSeq(found[1].account.data, 1, 8) = scan[1].discriminator}}

\* a scan that returned one account whose data is exactly the 8 discriminator
\* bytes and left out another resolved account
C7_Witness ==
    /\ scan # None
    /\ \E e \in scan[1].result.accounts : Len(e[2].data) = 8
    /\ Cardinality(scan[1].result.accounts) = 1
    /\ \A a \in FetchAddresses : account(chain_data, a) # None

\* the slots whose snapshots a lookup may return: the ancestry of the best
\* slot and the rooted slots
OnBestChain(cd, slot) ==
    \/ slot \in ChainOf(cd.slots, best_chain_slot(cd))
    \/ slot \in DOMAIN cd.slots /\ cd.slots[slot].status = "Rooted"

StoredVersions(cd, address) ==
    IF address \in DOMAIN cd.accounts THEN Range(cd.accounts[address]) ELSE {}

\* C11: after any sequence of update_slot and update_account calls,
\* account(address) is NotFound when no stored version of the address lies on
\* the best chain, and otherwise returns a stored version that lies on the best
\* chain and has the highest slot among those that do (a later rooted slot
\* before earlier processed data); it never returns a version of an orphaned slot.
C11_ForkConsistentResolution ==
    \A a \in FetchAddresses :
        LET onchain == {v \in StoredVersions(chain_data, a) :
                           OnBestChain(chain_data, v.slot)}
            found == account(chain_data, a)
        IN IF onchain = {}
           THEN found = None
           ELSE /\ found # None
                /\ found[1] \in onchain
                /\ \A w \in onchain : w.slot <= found[1].slot

\* a lookup that returned a snapshot on the best chain, passing over a later
\* version stored on a slot that is not on it
C11_Witness ==
    \E a \in FetchAddresses :
        LET found == account(chain_data, a)
        IN /\ found # None
           /\ \E w \in StoredVersions(chain_data, a) :
                 w.slot > found[1].slot /\ ~OnBestChain(chain_data, w.slot)

Newer(w, v) ==
    w.slot > v.slot \/ (w.slot = v.slot /\ w.write_version > v.write_version)

\* C12: no step on the shared cache replaces a stored version by one of the same
\* slot with a lower write_version or drops it, and a newly stored version that
\* is older than the address's current snapshot does not become the current one.
C12_NeverReplacesLaterByEarlier ==
    [][\A a \in DOMAIN chain_data.accounts :
          /\ \A v \in StoredVersions(chain_data, a) :
                \E w \in StoredVersions(chain_data', a) :
                    w.slot = v.slot /\ w.write_version >= v.write_version
          /\ LET before == account(chain_data, a)
                 after == account(chain_data', a)
             IN (before # None /\ after # None
                   /\ after[1] \notin StoredVersions(chain_data, a))
                => ~Newer(before[1], after[1])]_vars

\* a refresh stored its write_version 1 snapshot for a slot at which the cache
\* holds a streamed write with a higher write_version, which stays current
C12_Witness ==
    \E p \in Callers :
        /\ calls[p].ops # <<>>
        /\ LET snap == calls[p].ops[Len(calls[p].ops)].snap
               found == account(chain_data, calls[p].address)
           IN /\ found # None
              /\ found[1].slot = snap.slot
              /\ found[1].write_version > snap.write_version

\* the step in which caller p runs the write-lock section of its refresh
Applies(p) == calls[p].pc = "lock" /\ calls'[p].pc # "lock"

\* C13: with the updater and concurrent refreshes interleaving, best_chain_slot
\* never decreases across a step, and a refresh whose response slot is not
\* greater than the best slot when it takes the write lock leaves the slot
\* records and the best slot as they are.
C13_BestSlotMonotonic ==
    [][/\ best_chain_slot(chain_data') >= best_chain_slot(chain_data)
       /\ \A p \in Callers :
             (Applies(p) /\ calls[p].response[1].slot <= best_chain_slot(chain_data))
             => /\ chain_data'.slots = chain_data.slots
                /\ best_chain_slot(chain_data') = best_chain_slot(chain_data)]_vars

\* two refreshes alone on an empty cache: one inserted its slot record, the
\* other, whose response slot was by then no longer greater than the best slot,
\* inserted none
C13_Witness ==
    /\ updates = 0
    /\ \E p \in Callers, q \in Callers :
          /\ p # q
          /\ calls[p].pc = "done" /\ Len(calls[p].ops) = 1
          /\ calls[q].pc = "done" /\ Len(calls[q].ops) = 2
          /\ calls[q].ops[1].rec.parent = 0
          /\ calls[p].ops[1].snap.slot <= calls[q].ops[1].rec.slot

\* C14: a successful refresh whose response carries slot s merges the SlotRecord
\* {s, Processed, parent = the best slot read under the lock} iff s is greater
\* than that best slot, passes the snapshot {s, write_version 1, the RPC's
\* account} to update_account in every case, and returns s.
C14_RefreshEffect ==
    [][\A p \in Callers :
          Applies(p) =>
             LET s == calls[p].response[1].slot
                 best == best_chain_slot(chain_data)
                 rec == [slot |-> s, parent |-> best, status |-> "Processed", chain |-> 0]
                 snap == [slot |-> s, write_version |-> 1,
                          account |-> ChainAccount(calls[p].address, s)]
                 slotOp == [op |-> "update_slot", rec |-> rec]
                 accountOp == [op |-> "update_account", address |-> calls[p].address,
                               snap |-> snap]
             IN /\ calls'[p].ops = IF s > best THEN <<slotOp, accountOp>>
                                   ELSE <<accountOp>>
                /\ chain_data' =
                      update_account(IF s > best THEN update_slot(chain_data, rec)
                                     ELSE chain_data, calls[p].address, snap)
                /\ calls'[p].refreshed = <<Ok(s)>>]_vars

\* one refresh that merged a slot record with the updater's best slot as parent,
\* and one that only stored its snapshot
C14_Witness ==
    \E p \in Callers, q \in Callers :
        /\ calls[p].op = "refresh" /\ calls[p].pc = "done" /\ Len(calls[p].ops) = 2
        /\ calls[p].ops[1].rec.parent > 0
        /\ calls[q].op = "refresh" /\ calls[q].pc = "done" /\ Len(calls[q].ops) = 1

\* C15: fetch_raw_account_lookup_table returns the cached snapshot without an
\* RPC request when the first lookup succeeds; on a miss it makes exactly one RPC
\* refresh, returns the refresh's error if it fails, and otherwise makes exactly
\* one more lookup and returns its result.
C15_LookupTableFallback ==
    \A p \in Callers :
        calls[p].op = "lookup_table" =>
            /\ calls[p].rpcs <= 1
            /\ calls[p].pc = "done" =>
                  /\ calls[p].first # <<>>
                  /\ IF calls[p].first[1].ok
                     THEN /\ calls[p].result = calls[p].first
                          /\ calls[p].rpcs = 0
                          /\ calls[p].refreshed = <<>> /\ calls[p].second = <<>>
                     ELSE /\ calls[p].rpcs = 1
                          /\ calls[p].refreshed # <<>>
                          /\ IF calls[p].refreshed[1].ok
                             THEN calls[p].second # <<>>
                                  /\ calls[p].result = calls[p].second
                             ELSE calls[p].second = <<>>
                                  /\ calls[p].result = calls[p].refreshed

\* one lookup-table call answered from the cache, another that missed, refreshed
\* over RPC and found the account on its second lookup
C15_Witness ==
    \E p \in Callers, q \in Callers :
        /\ calls[p].op = "lookup_table" /\ calls[p].pc = "done"
        /\ calls[p].first[1].ok
        /\ calls[q].op = "lookup_table" /\ calls[q].pc = "done"
        /\ ~calls[q].first[1].ok /\ calls[q].refreshed # <<>> /\ calls[q].refreshed[1].ok
        /\ calls[q].second # <<>> /\ calls[q].second[1].ok

\* C8: when a side's bytes cannot be decoded the engine does not stop: the pass
\* goes on to every other configured market and side, and later events are processed.
C8_DecodeFailureIsSoft ==
    \A i \in DOMAIN pass :
        pass[i].kind = "decodefail" => (engine = "running" /\ Len(pass) = Len(ScanList))

\* C9: when decoding a side fails, its dedup key and cached snapshot are what they
\* were before the pass and nothing is emitted for it.
C9_DecodeFailureKeepsState ==
    [][\A i \in DOMAIN pass' :
          (events' = events + 1 /\ pass'[i].kind = "decodefail") =>
             /\ LastWriteVersion(last_write_versions', pass'[i].pk) =
                    LastWriteVersion(last_write_versions, pass'[i].pk)
             /\ Get(bookside_cache', pass'[i].pk) = Get(bookside_cache, pass'[i].pk)
             /\ Get(serum_bookside_cache', pass'[i].pk) =
                    Get(serum_bookside_cache, pass'[i].pk)]_vars

\* C10: when enqueueing an Update or Checkpoint fails, the engine keeps running
\* and finishes the pass.
C10_SendFailureIsNotACrash ==
    \A i \in DOMAIN pass :
        pass[i].kind = "sendfail" => (engine = "running" /\ Len(pass) = Len(ScanList))

\* the passes of the last scan that reached the diff of publish_changes /
\* publish_changes_serum (the side was cached before)
Diffed(i) == pass[i].kind \in {"published", "sendfail"}

\* the Update messages among msgs, in order
UpdatesOf(msgs) ==
    LET IsUpdate(m) == m.type = "Update"
    IN SelectSeq(msgs, IsUpdate)

\* C16: in every pass that diffs a side, exactly one Update carrying the diff
\* list and the side's (slot, write_version) is emitted when the list is non-empty
\* and none when it is empty; the update counter equals the number of Updates
\* emitted so far.
C16_UpdateIffDiffNonEmpty ==
    /\ \A i \in DOMAIN pass :
          Diffed(i) =>
            LET ups == UpdatesOf(pass[i].msgs)
            IN IF pass[i].diff # <<>>
               THEN /\ Len(ups) = 1
                    /\ ups[1].update = pass[i].diff
                    /\ <<ups[1].slot, ups[1].write_version>> = pass[i].version
               ELSE ups = <<>>
    /\ metric_events_new = emitted_updates

\* a removal level of the diff of previous against current: size 0, price in the
\* previous snapshot and absent from the new one
IsRemoval(u, previous, current) ==
    /\ u.size = ZeroSize
    /\ FindPrice(previous, u.price) # 0
    /\ FindPrice(current, u.price) = 0

\* a new or changed level: a level of the new snapshot whose price the previous
\* snapshot lacks or holds with another size
IsNewOrChanged(u, previous, current) ==
    /\ u \in Range(current)
    /\ u \notin Range(previous)

\* the price is held with the same size by both snapshots
Unchanged(price, previous, current) ==
    \E l \in Range(previous) \cap Range(current) : l.price = price

\* (price, size) of the spec's example, in whole units
ExampleLevel(price, size) == [price |-> [n |-> price, d |-> 1], size |-> [n |-> size, d |-> 1]]

\* C17: inside an Update every removal level precedes every new or changed
\* level, every level is one or the other, and no level whose price and size are
\* both unchanged appears; previous [(100,5),(101,3)] and new [(100,5),(102,2)]
\* give exactly [(101,0),(102,2)].
C17_RemovalsFirst ==
    /\ diff_out # None =>
          LET U == UpdateLevels(diff_out[1].result.msgs)
              P == diff_in.previous
              C == diff_in.current
          IN /\ \A i, j \in DOMAIN U :
                    (IsRemoval(U[i], P, C) /\ IsNewOrChanged(U[j], P, C)) => i < j
             /\ \A i \in DOMAIN U :
                    /\ IsRemoval(U[i], P, C) \/ IsNewOrChanged(U[i], P, C)
                    /\ ~Unchanged(U[i].price, P, C)
    /\ DiffLevels(<<ExampleLevel(100, 5), ExampleLevel(102, 2)>>,
                  <<ExampleLevel(100, 5), ExampleLevel(101, 3)>>)
          = <<ExampleLevel(101, 0), ExampleLevel(102, 2)>>

\* a call shaped like the example: one level unchanged, one price removed and
\* one price new, the Update holding the removal and then the new level
C17_Witness ==
    /\ diff_out # None
    /\ LET U == UpdateLevels(diff_out[1].result.msgs)
           P == diff_in.previous
           C == diff_in.current
       IN /\ Len(P) = 2 /\ Len(C) = 2 /\ Len(U) = 2
          /\ P[1] = C[1]
          /\ IsRemoval(U[1], P, C) /\ U[1].price = P[2].price
          /\ IsNewOrChanged(U[2], P, C) /\ U[2] = C[2]
          /\ C[2].size # ZeroSize

\* the Checkpoint messages among msgs, in order
CheckpointsOf(msgs) ==
    LET IsCheckpoint(m) == m.type = "Checkpoint"
    IN SelectSeq(msgs, IsCheckpoint)

\* C18: every emitted Checkpoint carries the just-decoded levels of the side being
\* processed in the field of that side (bids for the market's bids account, asks
\* for its asks account), the levels cached for the opposite account in the other
\* field, and the slot and write_version of the processed side's account version.
C18_CheckpointContent ==
    \A i \in DOMAIN pass :
        \A k \in DOMAIN CheckpointsOf(pass[i].msgs) :
            LET ckpt == CheckpointsOf(pass[i].msgs)[k]
            IN /\ ckpt.market = pass[i].market
               /\ pass[i].other # None
               /\ (IF pass[i].is_bids THEN ckpt.bids ELSE ckpt.asks) = pass[i].bookside
               /\ (IF pass[i].is_bids THEN ckpt.asks ELSE ckpt.bids) = pass[i].other[1]
               /\ <<ckpt.slot, ckpt.write_version>> = pass[i].version

\* C19: after every inbound event (any AccountWrite, any SlotUpdate) the
\* evaluation has visited every configured market and both of its sides.
C19_FullRescan ==
    events > 0 =>
        /\ Len(pass) = Len(ScanList)
        /\ \A i \in DOMAIN pass : pass[i].pk = SidePk(ScanList[i])

\* C20: every operation of the adapter returns what the wrapped synchronous
\* fetcher returns for the same input (fetch_raw_account_lookup_table what
\* fetch_raw_account_sync returns), sends no RPC request and leaves the cache as
\* it was.
C20_AdapterEquivalence ==
    [][(wrapped = None /\ wrapped' # None) =>
          LET w == wrapped'[1]
          IN /\ chain_data' = chain_data
             /\ w.rpcs = 0
             /\ w.op \in {"fetch_raw_account", "fetch_raw_account_lookup_table"} =>
                    w.result = fetch_raw_account_sync(chain_data, w.address)
             /\ w.op = "fetch_program_accounts" =>
                    w.result = fetch_program_accounts_sync(chain_data, w.program,
                                                           w.discriminator)]_vars

\* a lookup-table fetch through the adapter that missed (and so returned the
\* error) although the other address resolves
C20_Witness ==
    /\ wrapped # None
    /\ wrapped[1].op = "fetch_raw_account_lookup_table"
    /\ wrapped[1].result = None
    /\ \E a \in FetchAddresses : account(chain_data, a) # None

\* the bookside cache of the entry's market family
CacheOf(e) == IF e.kind = "native" THEN bookside_cache ELSE serum_bookside_cache

\* the side's dedup key and cached snapshot are those of the account version the
\* engine's cache resolves for it
SideUpToDate(e) ==
    LET found == account(chain_cache, SidePk(e))
    IN found # None =>
          /\ Get(last_write_versions, SidePk(e))
                = Some(<<found[1].slot, found[1].write_version>>)
          /\ Get(CacheOf(e), SidePk(e))
                = Some(DecodeLevels(found[1].account.orders, e.mkt))

\* C21: at the end of every pass in which all decodes succeed, every configured
\* side whose account resolves has the dedup key and the cached snapshot of the
\* resolved version; a cached snapshot is never deleted.
C21_PostPassState ==
    /\ []((events > 0 /\ \A i \in DOMAIN pass : pass[i].kind # "decodefail")
            => \A k \in DOMAIN ScanList : SideUpToDate(ScanList[k]))
    /\ [][/\ DOMAIN bookside_cache \subseteq DOMAIN bookside_cache'
          /\ DOMAIN serum_bookside_cache \subseteq DOMAIN serum_bookside_cache']_vars

\* the polling call moved on from the address it was at: to the next address, or
\* to success after the last one
MovedOn ==
    \/ poll'.pc = "check" /\ poll'.i = poll.i + 1
    \/ poll'.pc = "done" /\ poll'.result = "Ok"

\* C22: the deadline is tested only at the start of a refresh attempt: the call
\* ends by Timeout only there and only when the elapsed time exceeds the timeout,
\* no attempt starts once it does, and an attempt in flight is never cut short:
\* when it returns a slot >= min_slot it satisfies its address however late.
C22_CooperativeDeadline ==
    [][/\ (poll'.result = "Timeout" /\ poll.result # "Timeout") =>
             (poll.pc = "check" /\ elapsed > poll.timeout)
       /\ (poll.pc = "check" /\ poll'.pc = "rpc") => elapsed <= poll.timeout
       /\ (poll.pc = "rpc" /\ poll' # poll) =>
             /\ poll'.result # "Timeout"
             /\ Satisfied(poll.i)' => MovedOn]_vars

\* the call returned success although the deadline passed while the last
\* refresh was in flight
C22_Witness ==
    /\ poll.pc = "done" /\ poll.result = "Ok"
    /\ poll.addresses # <<>>
    /\ elapsed > poll.timeout

\* the step in which caller p's refresh returns its error: the `?` on the
\* request or on the missing account
Fails(p) == calls[p].pc = "rpc" /\ calls'[p].pc = "done"

\* C23: when the RPC request fails or the RPC reports no account, the refresh
\* returns an error (NotFound for the missing account), makes no cache call and
\* leaves slot records, snapshots and best slot as they were, whatever slot the
\* response carried.
C23_RefreshFailsWithoutEffect ==
    [][\A p \in Callers :
          Fails(p) =>
             /\ calls'[p].response[1].kind \in {"error", "absent"}
             /\ calls'[p].refreshed =
                   <<Err(IF calls'[p].response[1].kind = "absent"
                         THEN "NotFound" ELSE "RpcError")>>
             /\ calls'[p].ops = <<>>
             /\ chain_data' = chain_data]_vars

\* a refresh returned NotFound on a response whose slot is above the best slot
\* of the cache
C23_Witness ==
    \E p \in Callers :
        /\ calls[p].op = "refresh" /\ calls[p].pc = "done"
        /\ calls[p].result = <<Err("NotFound")>>
        /\ calls[p].response[1].slot > best_chain_slot(chain_data)

\* the step in which the polling call receives the answer to its refresh
Answered == poll.pc = "rpc" /\ poll' # poll

\* C24: when a refresh inside the polling loop fails (no account, or the request
\* fails) the call ends in that step with that error, not with Timeout and
\* whatever time has passed, naming the address; no later address was or is
\* attempted, and nothing more happens in the call.
C24_FailureEndsPolling ==
    [][/\ (Answered /\ poll'.response[1].kind # "ok") =>
             /\ poll'.pc = "done"
             /\ poll'.result = IF poll'.response[1].kind = "absent"
                               THEN "NotFound" ELSE "RpcError"
             /\ poll'.who = poll.addresses[poll.i] /\ poll'.i = poll.i
             /\ attempted' = attempted /\ attempted \subseteq 1..poll.i
       /\ poll.pc = "done" => (poll' = poll /\ attempted' = attempted)]_vars

\* the first of two addresses was reported missing before the deadline: the
\* call ended with NotFound and the second address was never refreshed
C24_Witness ==
    /\ poll.pc = "done" /\ poll.result = "NotFound"
    /\ Len(poll.addresses) = 2 /\ poll.i = 1
    /\ attempted = {1}
    /\ elapsed <= poll.timeout

\* the messages enqueued by the sides of the last pass, in order
RECURSIVE PassMessages(_)
PassMessages(i) ==
    IF i > Len(pass) THEN <<>> ELSE pass[i].msgs \o PassMessages(i + 1)

\* C25: the pass that decodes a side which had no cached snapshot enqueues
\* neither an Update nor a Checkpoint for it, whatever the levels and whether or
\* not the opposite side is cached; it stores the snapshot and the dedup key.
C25_FirstDecodeEmitsNothing ==
    /\ fill_updates = PassMessages(1)
    /\ \A i \in DOMAIN pass :
          (Processed(i) /\ ~pass[i].was_cached) =>
             /\ pass[i].msgs = <<>>
             /\ ~pass[i].ckpt /\ ~pass[i].upd
             /\ Get(last_write_versions, pass[i].pk) = Some(pass[i].version)
             /\ Get(bookside_cache, pass[i].pk) = Some(pass[i].bookside)
                  \/ Get(serum_bookside_cache, pass[i].pk) = Some(pass[i].bookside)

\* a side with levels is decoded for the first time while the opposite side is
\* cached, in a pass that enqueues nothing
C25_Witness ==
    /\ fill_updates = <<>>
    /\ \E i \in DOMAIN pass :
          /\ Processed(i) /\ ~pass[i].was_cached /\ pass[i].other_cached
          /\ pass[i].bookside # <<>>

\* C26: after any sequence of events with successful decodes, a consumer that
\* started from any emitted Checkpoint of a market and applied every later Update
\* of that market holds, for each side, exactly the level set of the engine's
\* cached snapshot of that side.
C26_ConsumerReplay ==
    (\A i \in DOMAIN pass : pass[i].kind # "decodefail") =>
        \A k \in DOMAIN ScanList :
            LET e == ScanList[k]
                snapshot == Get(CacheOf(e), SidePk(e))
            IN \A b \in replicas[e.mkt.pk] :
                  /\ snapshot # None
                  /\ (IF e.side = 0 THEN b.bids ELSE b.asks) = Range(snapshot[1])

\* (slot, write_version) pairs in lexicographic order
LexLeq(v, w) == v[1] < w[1] \/ (v[1] = w[1] /\ v[2] <= w[2])

\* C27: for each side the (slot, write_version) tags of its successive Updates
\* and Checkpoints never decrease, also across fork switches and late writes.
C27_PublishedVersionsMonotonic ==
    [][\A i \in DOMAIN pass' :
          (events' = events + 1 /\ pass'[i].msgs # <<>>
              /\ pass'[i].pk \in DOMAIN last_published)
          => LexLeq(last_published[pass'[i].pk], pass'[i].version)]_vars

\* the cache states in which caller p's slot record is in and its snapshot is not
Torn(p) == calls[p].pc = "slot_done" /\ calls[p].ops # <<>>

\* caller q is at a statement that reads or writes the shared cache
UsesCache(q) == calls[q].pc \in {"lookup1", "lookup2", "lock", "locked", "slot_done"}

FellBack(p) ==
    /\ calls[p].op = "lookup_table" /\ calls[p].pc = "done"
    /\ calls[p].refreshed # <<>> /\ calls[p].refreshed[1].ok

\* C29: a fetch_raw_account_lookup_table call that missed the cache and whose
\* RPC refresh succeeded returns a snapshot: the lookup retried after the
\* refresh does not fail NotFound, whatever the cache held and whatever slot
\* the response carried.
C29_FallbackYieldsAccount ==
    \A p \in Callers : FellBack(p) => calls[p].result[1].ok

====
